---------------------------- MODULE Spec2Model ----------------------------
(***************************************************************************)
(* A model of the proton downloader (CubicLauncher/proton).                *)
(*                                                                         *)
(*   - the adaptive concurrency controller (downloaders/mod.rs,            *)
(*     AdaptiveConfig), checked under SpecController;                      *)
(*   - the content-verified fetcher download_file (utilities/mod.rs) over  *)
(*     a file system of paths, inodes and open handles, checked under      *)
(*     SpecFetch;                                                          *)
(*   - the archive extractor extract_native (utilities/mod.rs), checked    *)
(*     under SpecExtract;                                                  *)
(*   - the orchestrator download_all with its four phases and their        *)
(*     permit-bounded workers (downloaders/mod.rs), checked under Spec     *)
(*     without a progress sink and under SpecProgress with one;            *)
(*   - download_file on urls the server answers with an error status,      *)
(*     checked under SpecStatus;                                           *)
(*   - the natives phase of one run after another on the same game_path,   *)
(*     checked under SpecRerun;                                            *)
(*   - the tasks of one phase under a clock, for the durations they feed   *)
(*     to the controller, checked under SpecTiming.                        *)
(*                                                                         *)
(* Every specification is over the same variables; the variables a         *)
(* specification does not use keep their initial value.                    *)
(***************************************************************************)
EXTENDS Integers, Sequences, FiniteSets, TLC

VARIABLES
    adaptive_config,  \* the AdaptiveConfig behind Arc<Mutex<..>>
    fs,               \* directory entries: path -> inode number (NoFile: absent)
    inodes,           \* inode number -> the bytes of the file
    calls,            \* the download_file calls in flight
    xt,               \* one extract_native call
    main,             \* download_all
    phase,            \* the four *_internal phase tasks
    worker,           \* the tasks spawned by create_monitored_task
    permits,          \* phase -> permits left in the phase's Semaphore
    first_failed,     \* the phase that returned Err before every other ("none": none yet)
    progress,         \* the progress sink handed to download_all and its channel
    faults,           \* whether the servers and the file system of the run may fail
    run,              \* the natives phase of one run after another on the same game_path
    timing            \* the tasks of one phase under a clock

vars == <<adaptive_config, fs, inodes, calls, xt, main, phase, worker, permits, first_failed,
          progress, faults, run, timing>>

----------------------------------------------------------------------------
(* Arithmetic helpers: usize::min, usize::max, Ord::clamp.                  *)

Min(a, b) == IF a <= b THEN a ELSE b

Max(a, b) == IF a >= b THEN a ELSE b

Clamp(x, lo, hi) == Max(lo, Min(x, hi))

RECURSIVE SumSeq(_)
SumSeq(s) == IF s = <<>> THEN 0 ELSE Head(s) + SumSeq(Tail(s))

----------------------------------------------------------------------------
(* The adaptive concurrency controller.                                     *)

\* Bounds of the hosts drawn in the initial states.
MaxCpuCores == 3

MaxMemQuarterGb == 10

\* kB in one GB: get_available_memory_gb divides kB by 1024 * 1024.
KbPerGb == 1048576

\* A host far above the upper clamp, besides the small hosts.
HostCpuCores == (1..MaxCpuCores) \cup {64}

\* MemAvailable in kB: whole and fractional quarters of a GB, a very large
\* memory, and the 8 GB the function falls back to when /proc/meminfo gives
\* nothing.
HostMemKb ==
    {q * (KbPerGb \div 4) + r : q \in 0..MaxMemQuarterGb, r \in {0, (KbPerGb \div 4) - 1}}
        \cup {128 * KbPerGb, 8 * KbPerGb}

calculate_optimal_downloads(cpu_cores, mem_kb) ==
    LET cpu_based == cpu_cores * 6
        \* (memory_gb * 4.0) as usize, memory_gb = kb / (1024.0 * 1024.0)
        memory_based == (mem_kb * 4) \div KbPerGb
    IN  Clamp(Min(cpu_based, memory_based), 8, 256)

AdaptiveConfigNew(cpu_cores, mem_kb) ==
    LET max_concurrent == calculate_optimal_downloads(cpu_cores, mem_kb)
    IN  [ max_concurrent           |-> max_concurrent,
          current_concurrent       |-> Max(max_concurrent \div 2, 4),
          min_concurrent           |-> 4,
          performance_samples      |-> <<>>,
          elapsed_secs             |-> 0,     \* last_adjustment.elapsed().as_secs()
          sample_size              |-> 8,
          performance_threshold_ms |-> 1000,
          adjustment_interval_secs |-> 5 ]

AdaptiveConfigConservative(cpu_cores, mem_kb) ==
    LET config == AdaptiveConfigNew(cpu_cores, mem_kb)
    IN  [config EXCEPT !.max_concurrent = config.max_concurrent \div 2,
                       !.current_concurrent = 4,
                       !.min_concurrent = 2,
                       !.performance_threshold_ms = 2000]

AdaptiveConfigAggressive(cpu_cores, mem_kb) ==
    LET config == AdaptiveConfigNew(cpu_cores, mem_kb)
        max_concurrent == config.max_concurrent * 2
    IN  [config EXCEPT !.max_concurrent = max_concurrent,
                       !.current_concurrent = max_concurrent \div 2,
                       !.min_concurrent = 8,
                       !.performance_threshold_ms = 500]

Presets == {"new", "conservative", "aggressive"}

Preset(name, cpu_cores, mem_kb) ==
    CASE name = "new" -> AdaptiveConfigNew(cpu_cores, mem_kb)
      [] name = "conservative" -> AdaptiveConfigConservative(cpu_cores, mem_kb)
      [] name = "aggressive" -> AdaptiveConfigAggressive(cpu_cores, mem_kb)

\* The branch of adjust_concurrency that lowers the limit.
DecreaseMutant(config) == (config.current_concurrent * 8) \div 10

Decrease(config) == Max((config.current_concurrent * 8) \div 10, config.min_concurrent)

\* The branch of adjust_concurrency that raises the limit.
IncreaseMutant(config) == Min((config.current_concurrent * 9) \div 10, config.max_concurrent)

Increase(config) == Min((config.current_concurrent * 11) \div 10, config.max_concurrent)

\* adjust_concurrency without its last line, performance_samples.clear().
AdjustKeepsWindow(config) ==
    IF config.performance_samples = <<>> THEN config
    ELSE
        LET total_ms == SumSeq(config.performance_samples)
            avg_ms == total_ms \div Len(config.performance_samples)
            current ==
                IF avg_ms > config.performance_threshold_ms THEN Decrease(config)
                ELSE IF avg_ms < config.performance_threshold_ms \div 2 THEN Increase(config)
                ELSE config.current_concurrent
        IN  [config EXCEPT !.current_concurrent = current,
                           !.elapsed_secs = 0]

adjust_concurrency(config) ==
    IF config.performance_samples = <<>> THEN config
    ELSE
        LET total_ms == SumSeq(config.performance_samples)
            avg_ms == total_ms \div Len(config.performance_samples)
            current ==
                IF avg_ms > config.performance_threshold_ms THEN Decrease(config)
                ELSE IF avg_ms < config.performance_threshold_ms \div 2 THEN Increase(config)
                ELSE config.current_concurrent
        IN  [config EXCEPT !.current_concurrent = current,
                           !.elapsed_secs = 0,
                           !.performance_samples = <<>>]

record_and_adjust(config, duration) ==
    LET pushed == Append(config.performance_samples, duration)
        samples == IF Len(pushed) > config.sample_size THEN Tail(pushed) ELSE pushed
        recorded == [config EXCEPT !.performance_samples = samples]
    IN  IF /\ recorded.elapsed_secs >= recorded.adjustment_interval_secs
           /\ Len(samples) >= recorded.sample_size \div 2
        THEN adjust_concurrency(recorded)
        ELSE recorded

\* Time passes: last_adjustment.elapsed() grows.  Past the adjustment interval
\* the code no longer tells the values apart, so the model stops counting.
Elapse(config, secs) ==
    [config EXCEPT !.elapsed_secs = Min(config.elapsed_secs + secs, config.adjustment_interval_secs)]

\* Durations handed to record_and_adjust, in ms (Duration::as_millis).
Durations == {100, 3000}

\* The download durations of the runs checked under Spec: above every
\* preset's threshold.  The limits of those runs are below 10, where the
\* raising branch changes nothing (4 * 11 / 10 = 4), so only a window of slow
\* downloads can change current_concurrent there.
RunDurations == {3000}


----------------------------------------------------------------------------
(* The file system download_file works on: directory entries name inodes,   *)
(* an open File is a handle on an inode with its own position, and rename   *)
(* and remove_file act on the entry a path names at the time of the call.   *)

NoFile == 0

\* A path is <<directory, file stem, extension>>; "" is no extension.
with_extension(path, ext) == <<path[1], path[2], ext>>

\* Bytes of a response body; 0 is the byte a write past the end of a file
\* leaves in the gap.
Bytes == {1, 2}

MaxChunks == 2

\* The bodies a server may send: every sequence of 1..MaxChunks one-byte chunks.
Bodies == UNION {[1..n -> Bytes] : n \in 1..MaxChunks}

\* SHA-1 as an injective digest of the byte sequence (hex::encode of the
\* digest is injective as well; the catalog's digests are lower-case hex).
RECURSIVE SHA1(_)
SHA1(bytes) ==
    IF bytes = <<>> THEN 1
    ELSE SHA1(SubSeq(bytes, 1, Len(bytes) - 1)) * 4 + bytes[Len(bytes)] + 1

\* The items the calls are made for.  Two names of an asset index with the
\* same hash give the same url, path and expected hash: two calls for the
\* asset item.  The library's path differs from the asset's.
\* statuses: the HTTP statuses the server answers a request for the url with.
AssetItem ==
    [ path |-> <<"assets/objects/ab", "ab12", "">>,
      content |-> <<1, 2>>,
      expected_hash |-> SHA1(<<1, 2>>),
      statuses |-> {200} ]

LibraryItem ==
    [ path |-> <<"libraries/org", "lib-1.0", "jar">>,
      content |-> <<2, 1>>,
      expected_hash |-> SHA1(<<2, 1>>),
      statuses |-> {200} ]

\* A library whose url the server no longer has: the response is 404 with
\* the body of an error page.
MissingItem ==
    [ path |-> <<"libraries/org", "gone-1.0", "jar">>,
      content |-> <<1, 1>>,
      expected_hash |-> SHA1(<<1, 1>>),
      statuses |-> {404} ]

FetchItems == {AssetItem, LibraryItem}

FetchPaths ==
    {i.path : i \in FetchItems} \cup {with_extension(i.path, "tmp") : i \in FetchItems}

\* write_all at position pos of a file (positions count from 0).
WriteAt(bytes, pos, b) ==
    [k \in 1..Max(Len(bytes), pos + 1) |->
        IF k = pos + 1 THEN b ELSE IF k <= Len(bytes) THEN bytes[k] ELSE 0]

\* The smallest inode number not in use.
FreshInode(used) == CHOOSE n \in 1..(Cardinality(used) + 1) : n \notin used

\* Inodes no entry names and no open handle refers to are gone.
Referenced(files, cs) ==
    {files[p] : p \in DOMAIN files} \cup {cs[w].file.inode : w \in DOMAIN cs}

Collect(ino, files, cs) ==
    [n \in (DOMAIN ino) \cap Referenced(files, cs) |-> ino[n]]

NoHandle == [inode |-> NoFile, pos |-> 0]

\* OpenOptions::new().write(true).create(true).truncate(true), as File::create
\* opens: an existing file is truncated in place, a missing one is created.
\* by: the calls that opened the inode with File::create.
FileCreateInode(files, ino, path) ==
    IF files[path] = NoFile THEN FreshInode(DOMAIN ino) ELSE files[path]

FileCreated(ino, n, w) ==
    [k \in (DOMAIN ino) \cup {n} |->
        IF k = n
        THEN [bytes |-> <<>>, by |-> (IF n \in DOMAIN ino THEN ino[n].by ELSE {}) \cup {w}]
        ELSE ino[k]]

----------------------------------------------------------------------------
(* download_file                                                            *)

MAX_DOWNLOAD_ATTEMPTS == 3

NumCalls == 2

Calls == 1..NumCalls

\* for _attempt in 1..=MAX_DOWNLOAD_ATTEMPTS: whether the loop runs the body
\* for this value of _attempt.
LoopOffByOne(attempt) == attempt < MAX_DOWNLOAD_ATTEMPTS

InLoop(attempt) == attempt <= MAX_DOWNLOAD_ATTEMPTS

NewCall(item) ==
    [ item |-> item,
      pc |-> "send",          \* send | create | stream | done
      attempt |-> 1,
      status |-> 0,            \* the status of the last response (0: none yet)
      body |-> <<>>,           \* the chunks of the response still to come
      sha1_context |-> <<>>,   \* the bytes fed to the hash
      file |-> NoHandle,
      result |-> "none",       \* Ok | RequestError | IoError | HashMismatch
      failed_at |-> "none",    \* where the error was raised
      requests |-> 0,          \* requests issued
      verifications |-> 0,     \* hash comparisons made
      mismatches |-> 0 ]       \* of which mismatches

Return(c, result, at) ==
    [c EXCEPT !.pc = "done", !.result = result, !.failed_at = at, !.file = NoHandle]

\* The loop goes to its next iteration, or ends and the function returns
\* Err(HashMismatch).
NextAttempt(c) ==
    IF InLoop(c.attempt + 1)
    THEN [c EXCEPT !.pc = "send", !.attempt = c.attempt + 1, !.file = NoHandle]
    ELSE Return(c, "HashMismatch", "verify")

\* HTTP_CLIENT.get(&url).send().await fails: map_err(RequestError)? returns.
SendFailedRetry(c) == NextAttempt([c EXCEPT !.requests = c.requests + 1])

SendFailed(c) == Return([c EXCEPT !.requests = c.requests + 1], "RequestError", "send")

SendFail(w) ==
    /\ calls[w].pc = "send"
    /\ calls' = [calls EXCEPT ![w] = SendFailed(calls[w])]
    /\ inodes' = Collect(inodes, fs, calls')
    /\ UNCHANGED fs

\* send() returns a response, whatever its status (there is no
\* error_for_status); its body is any of Bodies.
SendOk(w) ==
    /\ calls[w].pc = "send"
    /\ \E status \in calls[w].item.statuses, body \in Bodies :
           calls' = [calls EXCEPT ![w] =
                        [calls[w] EXCEPT !.pc = "create", !.status = status,
                                         !.body = body,
                                         !.requests = calls[w].requests + 1]]
    /\ UNCHANGED <<fs, inodes>>

\* create_dir_all(parent) or File::create(&temp_file) fails: ? returns.
CreateFail(w) ==
    /\ calls[w].pc = "create"
    /\ calls' = [calls EXCEPT ![w] = Return(calls[w], "IoError", "create")]
    /\ inodes' = Collect(inodes, fs, calls')
    /\ UNCHANGED fs

\* File::create(&temp_file), then Context::new and response.bytes_stream().
CreateOk(w) ==
    /\ calls[w].pc = "create"
    /\ LET temp_file == with_extension(calls[w].item.path, "tmp")
           n == FileCreateInode(fs, inodes, temp_file)
       IN  /\ fs' = [fs EXCEPT ![temp_file] = n]
           /\ calls' = [calls EXCEPT ![w] =
                           [calls[w] EXCEPT !.pc = "stream", !.sha1_context = <<>>,
                                            !.file = [inode |-> n, pos |-> 0]]]
           /\ inodes' = Collect(FileCreated(inodes, n, w), fs', calls')

\* stream.try_next().await? fails: From<reqwest::Error> makes it RequestError.
StreamFail(w) ==
    /\ calls[w].pc = "stream"
    /\ calls' = [calls EXCEPT ![w] = Return(calls[w], "RequestError", "stream")]
    /\ inodes' = Collect(inodes, fs, calls')
    /\ UNCHANGED fs

\* A chunk arrives and sha1_context.update(&chunk) runs, but
\* file.write_all(&chunk).await? fails.
WriteFail(w) ==
    /\ calls[w].pc = "stream"
    /\ calls[w].body # <<>>
    /\ calls' = [calls EXCEPT ![w] = Return(calls[w], "IoError", "write")]
    /\ inodes' = Collect(inodes, fs, calls')
    /\ UNCHANGED fs

\* A chunk arrives: sha1_context.update(&chunk); file.write_all(&chunk).
StreamChunk(w) ==
    /\ calls[w].pc = "stream"
    /\ calls[w].body # <<>>
    /\ LET c == calls[w]
           chunk == Head(c.body)
           n == c.file.inode
       IN  /\ calls' = [calls EXCEPT ![w] =
                           [c EXCEPT !.body = Tail(c.body),
                                     !.sha1_context = Append(c.sha1_context, chunk),
                                     !.file = [inode |-> n, pos |-> c.file.pos + 1]]]
           /\ inodes' = [inodes EXCEPT ![n].bytes = WriteAt(inodes[n].bytes, c.file.pos, chunk)]
    /\ UNCHANGED fs

\* actual_hash == expected_hash
HashMatches(c) == SHA1(c.sha1_context) = c.item.expected_hash

Verified(c, mismatch) ==
    [c EXCEPT !.verifications = c.verifications + 1,
              !.mismatches = c.mismatches + mismatch]

\* The stream ends with the expected hash, but rename(temp_file, path) fails:
\* always when no entry is at temp_file any more, and whenever the file
\* system says so.
RenameFail(w) ==
    /\ calls[w].pc = "stream"
    /\ calls[w].body = <<>>
    /\ HashMatches(calls[w])
    /\ calls' = [calls EXCEPT ![w] = Return(Verified(calls[w], 0), "IoError", "rename")]
    /\ inodes' = Collect(inodes, fs, calls')
    /\ UNCHANGED fs

\* The stream ends with the expected hash: rename(temp_file, path) moves the
\* entry now at temp_file to path, replacing what was there; return Ok(()).
RenameOk(w) ==
    /\ calls[w].pc = "stream"
    /\ calls[w].body = <<>>
    /\ HashMatches(calls[w])
    /\ LET path == calls[w].item.path
           temp_file == with_extension(path, "tmp")
       IN  /\ fs[temp_file] # NoFile
           /\ fs' = [fs EXCEPT ![path] = fs[temp_file], ![temp_file] = NoFile]
    /\ calls' = [calls EXCEPT ![w] = Return(Verified(calls[w], 0), "Ok", "none")]
    /\ inodes' = Collect(inodes, fs', calls')

\* The stream ends with another hash: let _ = remove_file(&temp_file).await
\* removes the entry now at temp_file, if any, and the loop goes on.
Mismatch(w) ==
    /\ calls[w].pc = "stream"
    /\ calls[w].body = <<>>
    /\ ~HashMatches(calls[w])
    /\ fs' = [fs EXCEPT ![with_extension(calls[w].item.path, "tmp")] = NoFile]
    /\ calls' = [calls EXCEPT ![w] = NextAttempt(Verified(calls[w], 1))]
    /\ inodes' = Collect(inodes, fs', calls')

FetchFrame ==
    UNCHANGED <<adaptive_config, xt, main, phase, worker, permits, first_failed,
                progress, faults, run, timing>>

download_file(w) ==
    \/ SendFail(w) /\ FetchFrame
    \/ SendOk(w) /\ FetchFrame
    \/ CreateFail(w) /\ FetchFrame
    \/ CreateOk(w) /\ FetchFrame
    \/ StreamFail(w) /\ FetchFrame
    \/ WriteFail(w) /\ FetchFrame
    \/ StreamChunk(w) /\ FetchFrame
    \/ RenameFail(w) /\ FetchFrame
    \/ RenameOk(w) /\ FetchFrame
    \/ Mismatch(w) /\ FetchFrame

----------------------------------------------------------------------------
(* extract_native.  Here a path is the sequence of its components; an       *)
(* absolute path starts with the component "/".                             *)

\* The natives directory the archive is extracted into.
destino == <<"/", "game", "natives", "1.21.8">>

\* Entry names as a zip archive may store them: async_zip hands the stored
\* name over as it is.
EntryNames ==
    { <<"META-INF", "MANIFEST.MF">>,
      <<"a", "b.so">>,
      <<"c.dll">>,
      <<"a", "..", "c.dll">>,
      <<"..", "..", "evil.so">>,
      <<"/", "etc", "evil.so">> }

Payloads == {1, 2}

ZipEntries == [filename : EntryNames, contenido : Payloads]

MaxEntries == 2

\* The archives: up to MaxEntries entries in their stored order.
Archives == UNION {[1..n -> ZipEntries] : n \in 0..MaxEntries}

\* PathBuf::join: an absolute argument replaces the base.
PathJoin(base, name) == IF name # <<>> /\ name[1] = "/" THEN name ELSE base \o name

\* The file the operating system opens for a path: "." stays, ".." goes to
\* the parent (the root is its own parent).
RECURSIVE Resolve(_)
Resolve(path) ==
    IF path = <<>> THEN <<>>
    ELSE LET front == Resolve(SubSeq(path, 1, Len(path) - 1))
             last == path[Len(path)]
         IN  IF last = "." THEN front
             ELSE IF last = ".."
                  THEN (IF Len(front) <= 1 THEN front ELSE SubSeq(front, 1, Len(front) - 1))
                  ELSE Append(front, last)

\* nombre.starts_with("META-INF/")
StartsWithMetaInf(nombre) == Len(nombre) >= 2 /\ nombre[1] = "META-INF"

\* A file strictly below the directory dir.
Inside(dir, path) == Len(path) > Len(dir) /\ SubSeq(path, 1, Len(dir)) = dir

\* ruta_salida = destino.join(nombre), as the file system resolves it.
RutaSalida(nombre) == Resolve(PathJoin(destino, nombre))

NewExtract(archive) ==
    [ entries |-> archive,
      pc |-> "open",        \* open | entries | done
      i |-> 1,              \* the loop index, from 1 here
      files |-> <<>>,       \* the files written: path -> content
      result |-> "none" ]   \* Ok | ZipError | IoError

ExtractFrame ==
    UNCHANGED <<adaptive_config, fs, inodes, calls, main, phase, worker, permits, first_failed,
                progress, faults, run, timing>>

\* ZipFileReader::new(jar_path).await? fails: no archive, or not a zip.
OpenFail ==
    /\ xt.pc = "open"
    /\ xt' = [xt EXCEPT !.pc = "done", !.result = "ZipError"]
    /\ ExtractFrame

OpenOk ==
    /\ xt.pc = "open"
    /\ xt' = [xt EXCEPT !.pc = "entries"]
    /\ ExtractFrame

\* The loop over the entries ends: Ok(()).
ExtractDone ==
    /\ xt.pc = "entries"
    /\ xt.i > Len(xt.entries)
    /\ xt' = [xt EXCEPT !.pc = "done", !.result = "Ok"]
    /\ ExtractFrame

\* filename().as_str()?, reader_with_entry(i).await? or read_to_end_checked
\* fails, for any entry, a META-INF one included.
EntryReadFail ==
    /\ xt.pc = "entries"
    /\ xt.i <= Len(xt.entries)
    /\ xt' = [xt EXCEPT !.pc = "done", !.result = "ZipError"]
    /\ ExtractFrame

\* The entry is read, and skipped for its META-INF/ prefix.
EntrySkip ==
    /\ xt.pc = "entries"
    /\ xt.i <= Len(xt.entries)
    /\ StartsWithMetaInf(xt.entries[xt.i].filename)
    /\ xt' = [xt EXCEPT !.i = xt.i + 1]
    /\ ExtractFrame

\* create_dir_all(p), File::create(&ruta_salida) or write_all fails.
EntryWriteFail ==
    /\ xt.pc = "entries"
    /\ xt.i <= Len(xt.entries)
    /\ ~StartsWithMetaInf(xt.entries[xt.i].filename)
    /\ xt' = [xt EXCEPT !.pc = "done", !.result = "IoError"]
    /\ ExtractFrame

\* The entry is read and written to destino.join(nombre), replacing what was
\* there.
EntryWrite ==
    /\ xt.pc = "entries"
    /\ xt.i <= Len(xt.entries)
    /\ ~StartsWithMetaInf(xt.entries[xt.i].filename)
    /\ LET entry == xt.entries[xt.i]
           ruta_salida == RutaSalida(entry.filename)
       IN  xt' = [xt EXCEPT !.i = xt.i + 1,
                            !.files = [f \in (DOMAIN xt.files) \cup {ruta_salida} |->
                                          IF f = ruta_salida THEN entry.contenido
                                          ELSE xt.files[f]]]
    /\ ExtractFrame

extract_native ==
    \/ OpenFail
    \/ OpenOk
    \/ ExtractDone
    \/ EntryReadFail
    \/ EntrySkip
    \/ EntryWriteFail
    \/ EntryWrite

----------------------------------------------------------------------------
(* The orchestrator: download_all, the four *_internal phases and the       *)
(* tasks create_monitored_task spawns.  progress.sink tells whether         *)
(* download_all was handed a progress sink (Some(tx)) or None; with None    *)
(* the `if let Some(tx) = tx` block of a task is skipped.                   *)

\* The phases in the order download_all spawns them and reads their results.
PhaseOrder == <<"natives", "libraries", "assets", "client">>

Phases == {PhaseOrder[k] : k \in 1..Len(PhaseOrder)}

\* The item lists a run is handed: the natives and libraries of the version
\* and the objects of its asset index; the client jar is always one item
\* (let total = 1).  The runs checked: one item in every phase, and
\* MaxLibraries libraries with no natives and an empty asset index.
MaxLibraries == 3

ItemLists ==
    { [natives |-> 1, libraries |-> 1, assets |-> 1, client |-> 1],
      [natives |-> 0, libraries |-> MaxLibraries, assets |-> 0, client |-> 1] }

\* A task is named by its phase and the position of its item in the list.
TasksFor(items) == UNION {{<<p, k>> : k \in 1..items[p]} : p \in Phases}

\* The tasks of the run.
Tasks == DOMAIN worker

TasksOf(p) == {w \in Tasks : w[1] = p}

\* What download_file returns to a task: Ok, or an error.  No step of a task,
\* a phase or download_all looks at the variant of an error, so one variant
\* stands for the three download_file returns (RequestError, IoError,
\* HashMismatch), and one for the two of extract_native (a zip error, which
\* From<ZipError> makes ProtonError::Other, and IoError).
DownloadResults == {"Ok", "HashMismatch"}

ExtractResults == {"Ok", "ZipError"}

Ok == [kind |-> "Ok", item |-> <<>>]

\* An error value: its ProtonError variant and, to tell two errors of the
\* same variant apart, the item whose task raised it (<<p, 0>>: the phase).
Err(kind, item) == [kind |-> kind, item |-> item]

\* A JoinHandle that has not produced its result yet.
Pending == [kind |-> "Pending", item |-> <<>>]

\* A JoinHandle whose result tasks.next() has taken.
Taken == [kind |-> "Taken", item |-> <<>>]

IsErr(r) == r.kind \notin {"Ok", "Pending"}

NewMain == [pc |-> "spawn", next |-> 1, result |-> Pending]

NewPhase ==
    [ pc |-> "unspawned",    \* unspawned | resolve | start | drain | returned
      current_limit |-> 0,   \* the snapshot the Semaphore was built with
      completed |-> 0,       \* the AtomicUsize
      yielded |-> {},        \* the tasks tasks.next() has yielded
      result |-> Pending ]

NewTask ==
    [ pc |-> "unspawned",    \* unspawned | acquire | download | post | count | send | done
      result |-> "none",     \* what download_file returned
      count |-> 0,           \* let count = completed.fetch_add(1, ..) + 1
      output |-> Pending ]   \* what the task returned

\* The capacity of the channel the caller made for the sink (mpsc::channel).
ChannelCapacity == 1

\* No sink: download_all(None).
NoProgress ==
    [ sink |-> FALSE,                        \* progress_tx.is_some()
      queue |-> <<>>,                        \* the events buffered in the channel
      rx |-> "open",                         \* the Receiver: open | closed (dropped)
      emitted |-> [p \in Phases |-> <<>>] ]  \* per category, the events in the
                                             \* order they entered the channel

\* The sink of download_all(Some(tx)), its Receiver held by the caller.
SomeProgress == [NoProgress EXCEPT !.sink = TRUE]

\* The results the servers and the file system of the run can give.
Outcomes(results) == IF faults THEN results ELSE {"Ok"}

OrchestratorFrame == UNCHANGED <<fs, inodes, calls, xt, faults, run, timing>>

\* Semaphore::new(current_limit)
SemaphoreNewMutant(current_limit) == current_limit + 1

SemaphoreNew(current_limit) == current_limit

\* drop(permit), or the drop of the permit when the task returns early: the
\* permit goes back to the semaphore.
ReleasePermitLeaks(n) == n

ReleasePermit(n) == n + 1

\* acquire_owned: a permit is there to take.
AvailableMutant(n) == n >= 0

Available(n) == n > 0

\* ---- download_all

\* tokio::spawn of the next phase; a spawned phase runs from then on.
SpawnPhase ==
    /\ main.pc = "spawn"
    /\ LET p == PhaseOrder[main.next]
       IN  phase' = [phase EXCEPT ![p].pc = IF p = "assets" THEN "resolve" ELSE "start"]
    /\ main' = [main EXCEPT !.next = main.next + 1,
                            !.pc = IF main.next = Len(PhaseOrder) THEN "join" ELSE "spawn"]
    /\ UNCHANGED <<adaptive_config, worker, permits, first_failed, progress>>
    /\ OrchestratorFrame

\* natives_result??; libraries_result??; assets_result??; client_result??;
\* Ok(()): the results are read in this order after the join, and the first
\* Err read is returned.
FirstErrorClientFirst(results) ==
    IF IsErr(results["client"]) THEN results["client"]
    ELSE IF IsErr(results["assets"]) THEN results["assets"]
    ELSE IF IsErr(results["libraries"]) THEN results["libraries"]
    ELSE IF IsErr(results["natives"]) THEN results["natives"]
    ELSE Ok

FirstError(results) ==
    IF IsErr(results["natives"]) THEN results["natives"]
    ELSE IF IsErr(results["libraries"]) THEN results["libraries"]
    ELSE IF IsErr(results["assets"]) THEN results["assets"]
    ELSE IF IsErr(results["client"]) THEN results["client"]
    ELSE Ok

\* tokio::join! of the four handles is ready when every phase has returned.
JoinReadyMutant(ph) == \E p \in Phases : ph[p].pc = "returned"

JoinReady(ph) == \A p \in Phases : ph[p].pc = "returned"

JoinPhases ==
    /\ main.pc = "join"
    /\ JoinReady(phase)
    /\ main' = [main EXCEPT !.pc = "done",
                            !.result = FirstError([p \in Phases |-> phase[p].result])]
    /\ UNCHANGED <<adaptive_config, phase, worker, permits, first_failed, progress>>
    /\ OrchestratorFrame

\* ---- the phases

PhaseReturns(p, result) ==
    /\ phase' = [phase EXCEPT ![p].pc = "returned", ![p].result = result]
    /\ first_failed' = IF IsErr(result) /\ first_failed = "none" THEN p ELSE first_failed

\* download_assets_internal: resolve_asset_index(&self.game_version).await?
ResolveAssetIndexFail ==
    /\ faults
    /\ phase["assets"].pc = "resolve"
    /\ PhaseReturns("assets", Err("RequestError", <<"assets", 0>>))
    /\ UNCHANGED <<adaptive_config, main, worker, permits, progress>>
    /\ OrchestratorFrame

ResolveAssetIndexOk ==
    /\ phase["assets"].pc = "resolve"
    /\ phase' = [phase EXCEPT !["assets"].pc = "start"]
    /\ UNCHANGED <<adaptive_config, main, worker, permits, first_failed, progress>>
    /\ OrchestratorFrame

\* create_adaptive_infrastructure! snapshots current_concurrent under the
\* lock and builds the Semaphore; download_natives_internal then fails in
\* tokio::fs::create_dir_all(&temp_dir).await?
CreateTempDirFail ==
    /\ faults
    /\ phase["natives"].pc = "start"
    /\ permits' = [permits EXCEPT !["natives"] = SemaphoreNew(adaptive_config.current_concurrent)]
    /\ phase' = [phase EXCEPT !["natives"].pc = "returned",
                              !["natives"].current_limit = adaptive_config.current_concurrent,
                              !["natives"].result = Err("IoError", <<"natives", 0>>)]
    /\ first_failed' = IF first_failed = "none" THEN "natives" ELSE first_failed
    /\ UNCHANGED <<adaptive_config, main, worker, progress>>
    /\ OrchestratorFrame

\* create_adaptive_infrastructure!, then one create_monitored_task! per item:
\* the loop has no await, and a spawned task starts at acquire_owned.
StartPhase(p) ==
    /\ phase[p].pc = "start"
    /\ permits' = [permits EXCEPT ![p] = SemaphoreNew(adaptive_config.current_concurrent)]
    /\ phase' = [phase EXCEPT ![p].pc = "drain",
                              ![p].current_limit = adaptive_config.current_concurrent]
    /\ worker' = [w \in Tasks |-> IF w[1] = p THEN [worker[w] EXCEPT !.pc = "acquire"]
                                  ELSE worker[w]]
    /\ UNCHANGED <<adaptive_config, main, first_failed, progress>>
    /\ OrchestratorFrame

\* while let Some(res) = tasks.next().await { res??; }: FuturesUnordered
\* yields a finished task; an Err output returns from the phase at once, and
\* the JoinHandles dropped with `tasks` detach the tasks still running.
DrainReturns(output) == IsErr(output)

DrainNext(p) ==
    /\ phase[p].pc = "drain"
    /\ \E w \in TasksOf(p) \ phase[p].yielded :
           /\ worker[w].pc = "done"
           /\ IF DrainReturns(worker[w].output)
              THEN PhaseReturns(p, worker[w].output)
              ELSE /\ phase' = [phase EXCEPT ![p].yielded = phase[p].yielded \cup {w}]
                   /\ UNCHANGED first_failed
           \* the output is moved out of the JoinHandle
           /\ worker' = [worker EXCEPT ![w].output = Taken]
    /\ UNCHANGED <<adaptive_config, main, permits, progress>>
    /\ OrchestratorFrame

\* tasks.next() yields None: every task was yielded.  The natives phase then
\* runs tokio::fs::remove_dir_all(temp_dir).await?, which may fail.
DrainEnd(p) ==
    /\ phase[p].pc = "drain"
    /\ phase[p].yielded = TasksOf(p)
    /\ \E result \in {Ok} \cup (IF p = "natives" /\ faults
                               THEN {Err("IoError", <<p, 0>>)} ELSE {}) :
           PhaseReturns(p, result)
    /\ UNCHANGED <<adaptive_config, main, worker, permits, progress>>
    /\ OrchestratorFrame

\* ---- the tasks of create_monitored_task!

\* semaphore.acquire_owned().await
AcquirePermit(w) ==
    /\ worker[w].pc = "acquire"
    /\ Available(permits[w[1]])
    /\ permits' = [permits EXCEPT ![w[1]] = permits[w[1]] - 1]
    /\ worker' = [worker EXCEPT ![w].pc = "download"]
    /\ UNCHANGED <<adaptive_config, main, phase, first_failed, progress>>
    /\ OrchestratorFrame

\* The output of a task whose download_file returned `result`.
TaskOutput(result, w) == IF result = "Ok" THEN Ok ELSE Err(result, w)

\* download_file(..).await returns and the task, still holding its permit,
\* takes the lock and calls record_and_adjust(download_duration).  For a
\* native, extract_native comes next.  For the other categories
\* $post_process is Ok(()); without a sink the rest of the task touches
\* nothing another task or phase reads before the permit is back
\* (completed.fetch_add, drop(permit), result) and is one step with the
\* record; with a sink the task goes on to count and send.
DownloadAndRecord(w) ==
    /\ worker[w].pc = "download"
    /\ \E result \in Outcomes(DownloadResults), duration \in RunDurations :
           /\ adaptive_config' = record_and_adjust(adaptive_config, duration)
           /\ IF w[1] = "natives"
              THEN /\ worker' = [worker EXCEPT ![w].pc = "post", ![w].result = result]
                   /\ UNCHANGED <<phase, permits>>
              ELSE IF progress.sink
              THEN /\ worker' = [worker EXCEPT ![w].pc = "count", ![w].result = result]
                   /\ UNCHANGED <<phase, permits>>
              ELSE /\ worker' = [worker EXCEPT ![w].pc = "done",
                                              ![w].output = TaskOutput(result, w)]
                   /\ phase' = [phase EXCEPT ![w[1]].completed = phase[w[1]].completed + 1]
                   /\ permits' = [permits EXCEPT ![w[1]] = ReleasePermit(permits[w[1]])]
    /\ UNCHANGED <<main, first_failed, progress>>
    /\ OrchestratorFrame

\* let count = completed.fetch_add(1, Ordering::Relaxed) + 1: the new value.
FetchAddCountMutant(completed) == completed

FetchAddCount(completed) == completed + 1

\* $post_process?: extract_native(..).await, whatever download_file
\* returned.  An Err returns from the task, which drops the permit.
\* Otherwise completed.fetch_add, and without a sink drop(permit), result.
PostProcess(w) ==
    /\ worker[w].pc = "post"
    /\ \E extracted \in Outcomes(ExtractResults) :
           IF extracted # "Ok"
           THEN /\ worker' = [worker EXCEPT ![w].pc = "done",
                                            ![w].result = "none",
                                            ![w].output = Err(extracted, w)]
                /\ permits' = [permits EXCEPT ![w[1]] = ReleasePermit(permits[w[1]])]
                /\ UNCHANGED phase
           ELSE /\ phase' = [phase EXCEPT ![w[1]].completed = phase[w[1]].completed + 1]
                /\ IF progress.sink
                   THEN /\ worker' = [worker EXCEPT
                                ![w].pc = "send",
                                ![w].count = FetchAddCount(phase[w[1]].completed)]
                        /\ UNCHANGED permits
                   ELSE /\ worker' = [worker EXCEPT
                                ![w].pc = "done",
                                ![w].result = "none",
                                ![w].output = TaskOutput(worker[w].result, w)]
                        /\ permits' = [permits EXCEPT ![w[1]] = ReleasePermit(permits[w[1]])]
    /\ UNCHANGED <<adaptive_config, main, first_failed, progress>>
    /\ OrchestratorFrame

\* A task of the other categories, with a sink: $post_process is Ok(()), then
\* let count = completed.fetch_add(1, Ordering::Relaxed) + 1, whatever
\* download_file returned.
CountCompleted(w) ==
    /\ worker[w].pc = "count"
    /\ phase' = [phase EXCEPT ![w[1]].completed = phase[w[1]].completed + 1]
    /\ worker' = [worker EXCEPT ![w].pc = "send",
                                ![w].count = FetchAddCount(phase[w[1]].completed)]
    /\ UNCHANGED <<adaptive_config, main, permits, first_failed, progress>>
    /\ OrchestratorFrame

\* DownloadProgress { current: count, total: $total, info, download_type }
DownloadProgress(w) ==
    [ download_type |-> w[1],
      current |-> worker[w].count,
      total |-> Cardinality(TasksOf(w[1])) ]

\* tx.send(..).await completes when the channel has room for the event, or
\* with an Err, which `let _ =` drops, when the Receiver is gone; until then
\* the task waits in it.
SendCompletes(pr) == pr.rx = "closed" \/ Len(pr.queue) < ChannelCapacity

\* let _ = tx.send(..).await; drop(permit); result
SendProgress(w) ==
    /\ worker[w].pc = "send"
    /\ SendCompletes(progress)
    /\ progress' =
           IF progress.rx = "closed" THEN progress
           ELSE [progress EXCEPT
                    !.queue = Append(progress.queue, DownloadProgress(w)),
                    !.emitted[w[1]] = Append(progress.emitted[w[1]], DownloadProgress(w))]
    /\ worker' = [worker EXCEPT ![w].pc = "done",
                                ![w].result = "none",
                                ![w].count = 0,
                                ![w].output = TaskOutput(worker[w].result, w)]
    /\ permits' = [permits EXCEPT ![w[1]] = ReleasePermit(permits[w[1]])]
    /\ UNCHANGED <<adaptive_config, main, phase, first_failed>>
    /\ OrchestratorFrame

\* The caller's consumer: rx.recv().await takes the oldest event.
ProgressReceive ==
    /\ progress.sink
    /\ progress.rx = "open"
    /\ progress.queue # <<>>
    /\ progress' = [progress EXCEPT !.queue = Tail(progress.queue)]
    /\ UNCHANGED <<adaptive_config, main, phase, worker, permits, first_failed>>
    /\ OrchestratorFrame

\* Enough time passes for the adjustment interval to have elapsed.
ClockAdvance ==
    /\ main.pc # "done"
    /\ adaptive_config.elapsed_secs < adaptive_config.adjustment_interval_secs
    /\ adaptive_config' = Elapse(adaptive_config, adaptive_config.adjustment_interval_secs)
    /\ UNCHANGED <<main, phase, worker, permits, first_failed, progress>>
    /\ OrchestratorFrame

----------------------------------------------------------------------------
(* Idle values of the variables a specification does not use.               *)

IdleConfig == AdaptiveConfigNew(4, 8 * KbPerGb)

IdleController == adaptive_config = IdleConfig

IdleFetch == /\ fs = <<>>
             /\ inodes = <<>>
             /\ calls = <<>>

IdleExtract == xt = <<>>

IdleOrchestrator == /\ main = NewMain
                    /\ phase = [p \in Phases |-> NewPhase]
                    /\ worker = <<>>
                    /\ permits = [p \in Phases |-> 0]
                    /\ first_failed = "none"
                    /\ progress = NoProgress
                    /\ faults = TRUE

IdleRerun == run = <<>>

IdleTiming == timing = <<>>

----------------------------------------------------------------------------
(* SpecController: one AdaptiveConfig, built by any preset on any host,     *)
(* fed arbitrary durations while arbitrary time passes.                     *)

InitController ==
    /\ \E name \in Presets, cpu_cores \in HostCpuCores, mem_kb \in HostMemKb :
           adaptive_config = Preset(name, cpu_cores, mem_kb)
    /\ IdleFetch
    /\ IdleExtract
    /\ IdleOrchestrator
    /\ IdleRerun
    /\ IdleTiming

RecordAndAdjust ==
    /\ \E duration \in Durations :
           adaptive_config' = record_and_adjust(adaptive_config, duration)
    /\ UNCHANGED <<fs, inodes, calls, xt, main, phase, worker, permits, first_failed,
                   progress, faults, run, timing>>

ClockTick ==
    /\ adaptive_config.elapsed_secs < adaptive_config.adjustment_interval_secs
    /\ adaptive_config' = Elapse(adaptive_config, 1)
    /\ UNCHANGED <<fs, inodes, calls, xt, main, phase, worker, permits, first_failed,
                   progress, faults, run, timing>>

NextController == RecordAndAdjust \/ ClockTick

SpecController == InitController /\ [][NextController]_vars

\* C3: min_concurrent <= current_concurrent <= max_concurrent in the initial
\* state of every preset on every host, and after every sequence of
\* record_and_adjust calls, whatever the durations and the time between them.
C3_LimitWithinBounds ==
    /\ adaptive_config.min_concurrent <= adaptive_config.current_concurrent
    /\ adaptive_config.current_concurrent <= adaptive_config.max_concurrent

\* C3 witness: an adjustment has lowered the limit to the floor of a preset
\* whose ceiling is above it (conservative: 4 -> 3 -> 2).
C3_Witness ==
    /\ adaptive_config.current_concurrent = adaptive_config.min_concurrent
    /\ adaptive_config.min_concurrent = 2
    /\ adaptive_config.max_concurrent > 4
    /\ adaptive_config.performance_samples = <<>>


\* C16: a record_and_adjust call whose window holds only durations above
\* performance_threshold_ms (the new one included) does not raise
\* current_concurrent, and one whose window holds only durations below
\* performance_threshold_ms / 2 does not lower it; so a stream all above the
\* threshold never raises the limit and a stream all below half of it never
\* lowers it.
C16_AdjustmentMonotone ==
    [][\A duration \in Durations :
           adaptive_config' = record_and_adjust(adaptive_config, duration) =>
               LET window == Append(adaptive_config.performance_samples, duration)
                   threshold == adaptive_config.performance_threshold_ms
               IN  /\ (\A k \in DOMAIN window : window[k] > threshold)
                       => adaptive_config'.current_concurrent
                              <= adaptive_config.current_concurrent
                   /\ (\A k \in DOMAIN window : window[k] < threshold \div 2)
                       => adaptive_config'.current_concurrent
                              >= adaptive_config.current_concurrent]_vars

\* C16 witness: an adjustment has just raised the limit above the value its
\* preset starts with, and the ceiling is still above it.
C16_Witness ==
    /\ adaptive_config.performance_samples = <<>>
    /\ adaptive_config.current_concurrent < adaptive_config.max_concurrent
    /\ \E name \in Presets, cpu_cores \in HostCpuCores, mem_kb \in HostMemKb :
           LET config == Preset(name, cpu_cores, mem_kb)
           IN  /\ adaptive_config.max_concurrent = config.max_concurrent
               /\ adaptive_config.performance_threshold_ms = config.performance_threshold_ms
               /\ adaptive_config.current_concurrent > config.current_concurrent

\* C22: record_and_adjust(d) appends d to the window and evicts the oldest
\* sample when the window exceeds sample_size, so the window never holds more
\* than sample_size samples; it evaluates only when the window holds at least
\* sample_size / 2 samples and adjustment_interval_secs have elapsed since
\* last_adjustment; an evaluation sets current_concurrent to
\* max(current * 8 / 10, min) if the integer mean is above the threshold, to
\* min(current * 11 / 10, max) if it is below threshold / 2, leaves it
\* otherwise, and resets the timer and empties the window; a call that does
\* not evaluate changes nothing but the window.
C22_RecordAndAdjust ==
    [][\A duration \in Durations :
           adaptive_config' = record_and_adjust(adaptive_config, duration) =>
               LET old == adaptive_config
                   new == adaptive_config'
                   appended == old.performance_samples \o <<duration>>
                   window == IF Len(appended) > old.sample_size
                             THEN SubSeq(appended, 2, Len(appended))
                             ELSE appended
                   mean == SumSeq(window) \div Len(window)
                   current == old.current_concurrent
                   evaluates == /\ 2 * Len(window) >= old.sample_size
                                /\ old.elapsed_secs >= old.adjustment_interval_secs
               IN  /\ Len(new.performance_samples) <= new.sample_size
                   /\ \A f \in DOMAIN old \ {"performance_samples", "elapsed_secs",
                                               "current_concurrent"} : new[f] = old[f]
                   /\ evaluates =>
                          /\ new.performance_samples = <<>>
                          /\ new.elapsed_secs = 0
                          /\ mean > old.performance_threshold_ms
                                 => new.current_concurrent
                                        = Max((current * 8) \div 10, old.min_concurrent)
                          /\ mean < old.performance_threshold_ms \div 2
                                 => new.current_concurrent
                                        = Min((current * 11) \div 10, old.max_concurrent)
                          /\ (/\ mean <= old.performance_threshold_ms
                              /\ mean >= old.performance_threshold_ms \div 2)
                                 => new.current_concurrent = current
                   /\ ~evaluates =>
                          /\ new.performance_samples = window
                          /\ new.elapsed_secs = old.elapsed_secs
                          /\ new.current_concurrent = current]_vars

\* C22 witness: after evaluations that lowered the limit to the floor
\* (conservative: 4 -> 3 -> 2), the window has filled up to sample_size
\* before the adjustment interval elapsed, with durations whose mean lies
\* between half the threshold and the threshold.
C22_Witness ==
    /\ Len(adaptive_config.performance_samples) = adaptive_config.sample_size
    /\ adaptive_config.elapsed_secs < adaptive_config.adjustment_interval_secs
    /\ adaptive_config.current_concurrent = 2
    /\ LET mean == SumSeq(adaptive_config.performance_samples)
                       \div Len(adaptive_config.performance_samples)
       IN  /\ mean <= adaptive_config.performance_threshold_ms
           /\ mean >= adaptive_config.performance_threshold_ms \div 2

\* C25: every evaluation whose window mean is below
\* performance_threshold_ms / 2 and that finds current_concurrent below
\* max_concurrent strictly increases current_concurrent, from every preset's
\* starting value; so under a sustained low-latency stream the limit reaches
\* max_concurrent.
C25_LowLatencyRaises ==
    [][\A duration \in Durations :
           (/\ adaptive_config' = record_and_adjust(adaptive_config, duration)
            /\ adaptive_config.elapsed_secs >= adaptive_config.adjustment_interval_secs
            /\ adaptive_config'.performance_samples = <<>>
            /\ LET appended == adaptive_config.performance_samples \o <<duration>>
                   window == IF Len(appended) > adaptive_config.sample_size
                             THEN SubSeq(appended, 2, Len(appended))
                             ELSE appended
               IN  SumSeq(window) \div Len(window)
                       < adaptive_config.performance_threshold_ms \div 2
            /\ adaptive_config.current_concurrent < adaptive_config.max_concurrent)
               => adaptive_config'.current_concurrent
                      > adaptive_config.current_concurrent]_vars


----------------------------------------------------------------------------
(* SpecFetch: NumCalls concurrent download_file calls, as the workers of    *)
(* the phases make them (every permit pool has at least min_concurrent >= 2 *)
(* permits), on a directory tree that starts empty.  The first call is for  *)
(* the asset and every other call for any of FetchItems, so two calls may   *)
(* be for the same url, path and hash.                                      *)

InitFetch ==
    /\ fs = [p \in FetchPaths |-> NoFile]
    /\ inodes = <<>>
    /\ calls \in [Calls -> {NewCall(i) : i \in FetchItems}]
    /\ calls[1].item = AssetItem
    /\ IdleController
    /\ IdleExtract
    /\ IdleOrchestrator
    /\ IdleRerun
    /\ IdleTiming

NextFetch == \E w \in Calls : download_file(w)

SpecFetch == InitFetch /\ [][NextFetch]_vars

\* The bytes of the file at a path (<<>> when there is none).
FileAt(path) == IF fs[path] = NoFile THEN <<>> ELSE inodes[fs[path]].bytes

\* C1: whenever a file exists at an item's final destination path, its
\* content hashes to the item's expected_hash, for every item list (two items
\* with the same destination included) and every interleaving of the workers.
C1_HashGate ==
    \A w \in Calls :
        fs[calls[w].item.path] # NoFile
            => SHA1(FileAt(calls[w].item.path)) = calls[w].item.expected_hash


\* C4: a call whose every response hashes to something else than
\* expected_hash issues exactly MAX_DOWNLOAD_ATTEMPTS requests, each followed
\* by one verification, and returns HashMismatch; no call issues more.
C4_RetryBound ==
    \A w \in Calls :
        LET c == calls[w]
        IN  /\ c.requests <= MAX_DOWNLOAD_ATTEMPTS
            /\ c.verifications <= c.requests
            /\ c.result = "HashMismatch"
                   => /\ c.requests = MAX_DOWNLOAD_ATTEMPTS
                      /\ c.verifications = MAX_DOWNLOAD_ATTEMPTS
                      /\ c.mismatches = MAX_DOWNLOAD_ATTEMPTS
            \* returned without any transport or file system error and without
            \* a match: not before the last verification
            /\ (c.pc = "done" /\ c.failed_at \in {"none", "verify"}
                    /\ c.mismatches = c.verifications)
                   => /\ c.result = "HashMismatch"
                      /\ c.verifications = MAX_DOWNLOAD_ATTEMPTS

\* C4 witness: both calls, for the same asset, have returned HashMismatch
\* after MAX_DOWNLOAD_ATTEMPTS request and verify cycles each.
C4_Witness ==
    \A w \in Calls :
        /\ calls[w].item = AssetItem
        /\ calls[w].pc = "done"
        /\ calls[w].result = "HashMismatch"
        /\ calls[w].mismatches = MAX_DOWNLOAD_ATTEMPTS

\* C5: a request that fails at the transport level ends the call with that
\* error, and it is the call's last request; every request after a call's
\* first follows a hash mismatch.
C5_TransportErrorNotRetried ==
    \A w \in Calls :
        LET c == calls[w]
        IN  /\ c.requests <= c.mismatches + 1
            /\ c.failed_at = "send"
                   => /\ c.pc = "done"
                      /\ c.result = "RequestError"
                      /\ c.requests = c.mismatches + 1
            /\ (c.pc # "done" /\ c.pc # "send") => c.requests = c.mismatches + 1
            /\ (c.pc = "send") => c.requests = c.mismatches

\* C5 witness: after a hash mismatch the second request of a call failed at
\* the transport level and the call returned RequestError.
C5_Witness ==
    \E w \in Calls :
        /\ calls[w].pc = "done"
        /\ calls[w].result = "RequestError"
        /\ calls[w].failed_at = "send"
        /\ calls[w].requests = 2
        /\ calls[w].mismatches = 1

\* The call opened the file now at its temp path with File::create.
TempFileLeft(w) ==
    LET temp_file == with_extension(calls[w].item.path, "tmp")
    IN  /\ fs[temp_file] # NoFile
        /\ w \in inodes[fs[temp_file]].by

\* C6: after download_file returns, whatever the outcome, no temp file of
\* that call remains on disk.
C6_NoTempFileLeft ==
    \A w \in Calls : calls[w].pc = "done" => ~TempFileLeft(w)


\* C20: no two calls that hold an open temp file at the same time have the
\* same temp path: path.with_extension("tmp") gives concurrently processed
\* items distinct temp files, two items with the same destination included.
C20_TempFilesWorkerLocal ==
    \A w1, w2 \in Calls :
        (w1 # w2 /\ calls[w1].pc = "stream" /\ calls[w2].pc = "stream")
            => with_extension(calls[w1].item.path, "tmp")
                   # with_extension(calls[w2].item.path, "tmp")


----------------------------------------------------------------------------
(* SpecStatus: NumCalls concurrent download_file calls, the first for a url *)
(* the server answers with a non-success status.                            *)

StatusItems == {MissingItem, LibraryItem}

InitStatus ==
    /\ fs = [p \in {i.path : i \in StatusItems}
                      \cup {with_extension(i.path, "tmp") : i \in StatusItems} |-> NoFile]
    /\ inodes = <<>>
    /\ calls \in [Calls -> {NewCall(i) : i \in StatusItems}]
    /\ calls[1].item = MissingItem
    /\ IdleController
    /\ IdleExtract
    /\ IdleOrchestrator
    /\ IdleRerun
    /\ IdleTiming

SpecStatus == InitStatus /\ [][NextFetch]_vars

\* C17: a response with a non-success status ends the call at once with the
\* request error: nothing is created or written and no further request is
\* made.
C17_StatusIsTransportError ==
    \A w \in Calls :
        (calls[w].status # 0 /\ calls[w].status \notin 200..299)
            => /\ calls[w].pc = "done"
               /\ calls[w].result = "RequestError"
               /\ calls[w].failed_at = "send"


----------------------------------------------------------------------------
(* SpecExtract: one extract_native call on any archive of Archives.         *)

InitExtract ==
    /\ xt \in {NewExtract(archive) : archive \in Archives}
    /\ IdleController
    /\ IdleFetch
    /\ IdleOrchestrator
    /\ IdleRerun
    /\ IdleTiming

NextExtract == extract_native

SpecExtract == InitExtract /\ [][NextExtract]_vars

\* C7: every file extract_native creates or overwrites lies inside the
\* destination directory, whatever the entry names ('..' components and
\* absolute names included).
C7_ExtractStaysInside ==
    \A ruta \in DOMAIN xt.files : Inside(destino, ruta)


\* C18: after extract_native returns Ok, the files written are exactly the
\* entries whose name does not start with META-INF/, each under the
\* destination at destino/entry_name with the payload of the entry (of the
\* last entry of that name, when a name occurs twice).
C18_ExtractionCorrect ==
    (xt.pc = "done" /\ xt.result = "Ok") =>
        LET kept == {k \in 1..Len(xt.entries) : ~StartsWithMetaInf(xt.entries[k].filename)}
            under(k) == Resolve(destino \o xt.entries[k].filename)
        IN  /\ DOMAIN xt.files = {under(k) : k \in kept}
            /\ \A ruta \in DOMAIN xt.files : Inside(destino, ruta)
            /\ \A k \in kept :
                   (\A j \in kept : j > k => under(j) # under(k))
                       => xt.files[under(k)] = xt.entries[k].contenido


----------------------------------------------------------------------------
(* Spec: one download_all(None) on a downloader built by                    *)
(* MinecraftDownloader::new or with_config, fresh or used before: an        *)
(* earlier run on the same downloader leaves the AdaptiveConfig with the    *)
(* limit its adjustments lowered it to.                                     *)

\* The host of the runs checked under Spec.
SpecCpuCores == 2

SpecMemKb == 8 * KbPerGb

MaxPriorAdjustments == 2

\* The AdaptiveConfig after k lowering adjustments of earlier runs: each
\* leaves the window empty and the timer reset.
RECURSIVE Lowered(_, _)
Lowered(config, k) ==
    IF k = 0 THEN config
    ELSE Lowered([config EXCEPT !.current_concurrent = Decrease(config)], k - 1)

InitOrchestrator ==
    /\ \E name \in {"conservative"}, k \in 0..MaxPriorAdjustments :
           adaptive_config = Lowered(Preset(name, SpecCpuCores, SpecMemKb), k)
    /\ main = NewMain
    /\ phase = [p \in Phases |-> NewPhase]
    /\ \E items \in ItemLists : worker = [w \in TasksFor(items) |-> NewTask]
    /\ permits = [p \in Phases |-> 0]
    /\ first_failed = "none"
    /\ progress = NoProgress
    /\ faults = TRUE
    /\ IdleFetch
    /\ IdleExtract
    /\ IdleRerun
    /\ IdleTiming

Init == InitOrchestrator

Next ==
    \/ SpawnPhase
    \/ JoinPhases
    \/ ResolveAssetIndexFail
    \/ ResolveAssetIndexOk
    \/ CreateTempDirFail
    \/ \E p \in Phases : StartPhase(p)
    \/ \E p \in Phases : DrainNext(p)
    \/ \E p \in Phases : DrainEnd(p)
    \/ \E w \in Tasks : AcquirePermit(w)
    \/ \E w \in Tasks : DownloadAndRecord(w)
    \/ \E w \in Tasks : PostProcess(w)
    \/ ClockAdvance

Spec == Init /\ [][Next]_vars


\* The tasks of a phase that hold a permit: between acquire_owned and the
\* drop of the permit.
Holders(p) == {w \in TasksOf(p) : worker[w].pc \in {"download", "post"}}

\* C2: in every state of a phase, the number of its tasks holding a permit is
\* at most the current_concurrent the phase snapshotted for its semaphore.
C2_ConcurrencyBound ==
    \A p \in Phases :
        phase[p].pc \in {"drain", "returned"}
            => Cardinality(Holders(p)) <= phase[p].current_limit

\* C2 witness: the bound binds: every permit of a phase is held and another
\* task of the phase waits in acquire_owned.
C2_Witness ==
    \E p \in Phases :
        /\ phase[p].pc = "drain"
        /\ Cardinality(Holders(p)) = phase[p].current_limit
        /\ permits[p] = 0
        /\ \E w \in TasksOf(p) : worker[w].pc = "acquire"

\* C15: while a phase runs, and after it has returned, the permits of its
\* semaphore (those left and those held) stay what they were, whatever
\* record_and_adjust does to current_concurrent in the meantime; a semaphore
\* is created with the current_concurrent of the moment it is created.
C15_WaveModel ==
    [][\A p \in Phases :
           /\ phase[p].pc \in {"drain", "returned"}
                  => permits'[p] + Cardinality(Holders(p))'
                         = permits[p] + Cardinality(Holders(p))
           /\ (phase[p].pc = "start" /\ phase'[p].pc # "start")
                  => permits'[p] + Cardinality(Holders(p))'
                         = adaptive_config.current_concurrent]_vars

\* C15 witness: an adjustment has lowered current_concurrent while phase p
\* was running, p, still draining its tasks, has the permits it was created
\* with, and phase q, created after the adjustment, has the new number.
C15_Witness ==
    \E p, q \in Phases :
        /\ phase[p].pc = "drain"
        /\ phase[q].pc = "drain"
        /\ adaptive_config.current_concurrent < phase[p].current_limit
        /\ permits[p] + Cardinality(Holders(p)) = phase[p].current_limit
        /\ phase[p].yielded # TasksOf(p)
        /\ phase[q].current_limit = adaptive_config.current_concurrent
        /\ permits[q] + Cardinality(Holders(q)) = adaptive_config.current_concurrent


\* C8: download_all spawns the four phases without waiting for any of them,
\* returns only after all four have returned, and returns Ok if and only if
\* all four returned Ok.
C8_JoinAll ==
    /\ main.pc = "spawn" => main.result = Pending
    /\ main.pc \in {"join", "done"} => \A p \in Phases : phase[p].pc # "unspawned"
    /\ main.pc = "done" =>
           /\ \A p \in Phases : phase[p].pc = "returned"
           /\ (main.result = Ok) <=> (\A p \in Phases : phase[p].result = Ok)
           /\ main.result # Ok => \E p \in Phases : main.result = phase[p].result

\* C8 witness: the four phases run at the same time, each with a task in
\* download_file, while download_all waits in the join.
C8_Witness ==
    /\ main.pc = "join"
    /\ \A p \in Phases :
           /\ phase[p].pc = "drain"
           /\ \E w \in TasksOf(p) : worker[w].pc = "download"

\* C9: once a phase has returned, every task it spawned has finished.
C9_PhaseDrainsBeforeReturn ==
    \A p \in Phases :
        phase[p].pc = "returned"
            => \A w \in TasksOf(p) : worker[w].pc \in {"unspawned", "done"}

\* C10 as claimed: the error download_all returns is the error of the phase
\* that failed first.
C10_EarliestError ==
    (main.pc = "done" /\ IsErr(main.result))
        => main.result = phase[first_failed].result

\* C10 as amended: the error download_all returns is the error of the first
\* failed phase in the order natives, libraries, assets, client, whichever
\* phase failed first.
C10_FirstErrorInOrder ==
    main.pc = "done" =>
        \A k \in 1..Len(PhaseOrder) :
            (/\ IsErr(phase[PhaseOrder[k]].result)
             /\ \A j \in 1..(k - 1) : ~IsErr(phase[PhaseOrder[j]].result))
                => main.result = phase[PhaseOrder[k]].result

\* C10 witness: two phases failed, the client first and the natives later,
\* and download_all has returned the natives' error.
C10_Witness ==
    /\ main.pc = "done"
    /\ first_failed = "client"
    /\ IsErr(phase["natives"].result)
    /\ main.result = phase["natives"].result
    /\ main.result # phase["client"].result

\* C21: for a native item extract_native runs only after that item's
\* download_file returned success, and a task whose fetch failed returns the
\* fetch's error: a step of a task out of $post_process is taken with the
\* fetch's result Ok, and a task that finishes after a failed fetch has that
\* fetch's error for its output.
C21_ExtractOnlyAfterFetch ==
    [][\A w \in Tasks :
           /\ (worker[w].pc = "post" /\ worker'[w].pc # "post")
                  => worker[w].result = "Ok"
           /\ (/\ worker[w].pc \in {"post", "count", "send"}
               /\ worker[w].result # "Ok"
               /\ worker'[w].pc = "done")
                  => worker'[w].output = Err(worker[w].result, w)]_vars

----------------------------------------------------------------------------
(* SpecProgress: one download_all(Some(tx)) of a new downloader built by   *)
(* with_config, on a channel of ChannelCapacity events whose Receiver the   *)
(* caller holds and receives from when it likes, or has dropped.            *)

\* The runs checked: the item lists of ItemLists, the one with an item in
\* every category on servers and a file system that may fail, the one with
\* MaxLibraries libraries on ones that do not.
ProgressRuns ==
    { [items |-> items, faults |-> items["natives"] > 0] : items \in ItemLists }

InitProgress ==
    /\ adaptive_config = Preset("conservative", SpecCpuCores, SpecMemKb)
    /\ main = NewMain
    /\ phase = [p \in Phases |-> NewPhase]
    /\ \E r \in ProgressRuns :
           /\ worker = [w \in TasksFor(r.items) |-> NewTask]
           /\ faults = r.faults
    /\ permits = [p \in Phases |-> 0]
    /\ first_failed = "none"
    /\ \E rx \in {"open", "closed"} : progress = [SomeProgress EXCEPT !.rx = rx]
    /\ IdleFetch
    /\ IdleExtract
    /\ IdleRerun
    /\ IdleTiming

NextProgress ==
    \/ Next
    \/ \E w \in Tasks : CountCompleted(w)
    \/ \E w \in Tasks : SendProgress(w)
    \/ ProgressReceive

SpecProgress == InitProgress /\ [][NextProgress]_vars

\* C12: within a category, the events arrive on the channel with
\* non-decreasing completed_count (current), under every interleaving of the
\* category's workers between the counter increment and the send.
C12_CountMonotone ==
    \A p \in Phases :
        \A j, k \in DOMAIN progress.emitted[p] :
            j < k => progress.emitted[p][j].current <= progress.emitted[p][k].current

\* C13: a worker never waits in the send of its event: with the channel full
\* and the Receiver alive, the send still completes and the worker goes on to
\* release its permit.
C13_SendNeverBlocks ==
    \A w \in Tasks : worker[w].pc = "send" => SendCompletes(progress)

\* C14: with a sink whose Receiver is alive, a category all of whose n
\* fetches and extractions succeeded has emitted, when its phase returns,
\* exactly n events, with the completed_count values 1..n, each once, and
\* total n; a run that returned Ok has emitted as many events as it has
\* items.
C14_OneEventPerItem ==
    /\ \A p \in Phases :
           (/\ progress.rx = "open"
            /\ phase[p].pc = "returned"
            /\ phase[p].yielded = TasksOf(p))
               => LET events == progress.emitted[p]
                      n == Cardinality(TasksOf(p))
                  IN  /\ Len(events) = n
                      /\ {events[k].current : k \in DOMAIN events} = 1..n
                      /\ \A k \in DOMAIN events :
                             events[k].total = n /\ events[k].download_type = p
    /\ (progress.rx = "open" /\ main.pc = "done" /\ main.result = Ok)
           => SumSeq([k \in 1..Len(PhaseOrder) |-> Len(progress.emitted[PhaseOrder[k]])])
                  = Cardinality(Tasks)

\* C14 witness: the run for MaxLibraries libraries and the client has
\* returned Ok, and MaxLibraries + 1 events were emitted, those of the
\* libraries with the counts 1..MaxLibraries, the last count first.
C14_Witness ==
    /\ main.pc = "done"
    /\ main.result = Ok
    /\ progress.rx = "open"
    /\ Cardinality(TasksOf("libraries")) = MaxLibraries
    /\ Len(progress.emitted["libraries"]) = MaxLibraries
    /\ Len(progress.emitted["client"]) = 1
    /\ progress.emitted["libraries"][1].current = MaxLibraries

\* C24: a task increments its category's completed counter and emits its
\* event only when its download_file call returned success: the step of a
\* task that raises completed, and the step that puts its event on the
\* channel, are taken with the fetch's result Ok.
C24_CountOnlyOnSuccess ==
    [][\A w \in Tasks :
           /\ (/\ worker'[w] # worker[w]
               /\ phase'[w[1]].completed > phase[w[1]].completed)
                  => worker[w].result = "Ok"
           /\ (/\ worker[w].pc = "send"
               /\ worker'[w].pc = "done"
               /\ progress'.emitted # progress.emitted)
                  => worker[w].result = "Ok"]_vars

----------------------------------------------------------------------------
(* SpecLive: the rest of a download_all(Some(tx)) from the moment the       *)
(* libraries, assets and client phases of a version with MaxNatives natives *)
(* and no libraries or assets have returned Ok and the natives phase is     *)
(* about to start, with a Receiver that keeps receiving, under the          *)
(* scheduling of the runtime: every future that can make a step makes it in *)
(* the end (download_all, the phase, the fetch and the extraction of a      *)
(* task return, the consumer's recv), and a task waiting for a permit or    *)
(* for room in the channel is served in the end if permits or room keep     *)
(* coming back (the Semaphore and the channel queue their waiters first     *)
(* in, first out).  Time is free to pass or not.                            *)

MaxNatives == 3

LiveItems == [natives |-> MaxNatives, libraries |-> 0, assets |-> 0, client |-> 1]

\* A phase of n items on a semaphore of current_limit permits that has
\* returned Ok.
ReturnedPhase(current_limit, n, tasks) ==
    [ pc |-> "returned",
      current_limit |-> current_limit,
      completed |-> n,
      yielded |-> tasks,
      result |-> Ok ]

InitLive ==
    /\ \E k \in 0..MaxPriorAdjustments, duration \in RunDurations :
           LET config == Lowered(Preset("conservative", SpecCpuCores, SpecMemKb), k)
           IN  \* the client's task has recorded the duration of its download
               /\ adaptive_config = record_and_adjust(config, duration)
               /\ phase = [p \in Phases |->
                              IF p = "natives" THEN [NewPhase EXCEPT !.pc = "start"]
                              ELSE ReturnedPhase(config.current_concurrent, LiveItems[p],
                                                 {w \in TasksFor(LiveItems) : w[1] = p})]
               /\ permits = [p \in Phases |->
                                IF p = "natives" THEN 0
                                ELSE SemaphoreNew(config.current_concurrent)]
    /\ main = [NewMain EXCEPT !.pc = "join", !.next = Len(PhaseOrder) + 1]
    /\ worker = [w \in TasksFor(LiveItems) |->
                    IF w[1] = "natives" THEN NewTask
                    ELSE [NewTask EXCEPT !.pc = "done", !.output = Taken]]
    /\ first_failed = "none"
    \* the event of the client's task, which the consumer has received
    /\ progress = [SomeProgress EXCEPT
                      !.emitted["client"] =
                          <<[download_type |-> "client", current |-> 1, total |-> 1]>>]
    /\ faults = TRUE
    /\ IdleFetch
    /\ IdleExtract
    /\ IdleRerun
    /\ IdleTiming

NextLive ==
    \/ JoinPhases
    \/ CreateTempDirFail
    \/ \E p \in Phases : StartPhase(p)
    \/ \E p \in Phases : DrainNext(p)
    \/ \E p \in Phases : DrainEnd(p)
    \/ \E w \in Tasks : AcquirePermit(w)
    \/ \E w \in Tasks : DownloadAndRecord(w)
    \/ \E w \in Tasks : PostProcess(w)
    \/ \E w \in Tasks : SendProgress(w)
    \/ ProgressReceive
    \/ ClockAdvance

\* The steps of phase p.
PhaseStep(p) ==
    \/ p = "natives" /\ CreateTempDirFail
    \/ StartPhase(p)
    \/ DrainNext(p)
    \/ DrainEnd(p)

\* The steps of task w.
TaskStep(w) ==
    \/ AcquirePermit(w)
    \/ DownloadAndRecord(w)
    \/ PostProcess(w)
    \/ SendProgress(w)

Fairness ==
    /\ WF_vars(JoinPhases)
    /\ \A p \in Phases : WF_vars(PhaseStep(p))
    /\ \A w \in TasksFor(LiveItems) : SF_vars(TaskStep(w))
    /\ WF_vars(ProgressReceive)

SpecLive == InitLive /\ [][NextLive]_vars /\ Fairness

\* C26: every task that acquires a permit releases it on every path, so when
\* every fetch and extraction returns and the consumer keeps receiving, the
\* run comes to rest: every spawned task, waiting for a permit or holding
\* one, has finished, every semaphore has its permits back, and download_all
\* has returned.
C26_PermitsReturned ==
    <>(/\ main.pc = "done"
       /\ \A w \in Tasks :
              \/ worker[w].pc = "done"
              \/ (phase[w[1]].pc = "returned" /\ worker[w].pc = "unspawned")
       /\ \A p \in Phases : permits[p] = phase[p].current_limit)

\* C26 witness: download_all has returned from the run of MaxNatives
\* natives on a semaphore of fewer permits, every task has finished, and
\* the permits are all back.
C26_Witness ==
    /\ main.pc = "done"
    /\ phase["natives"].current_limit < MaxNatives
    /\ phase["natives"].result = Ok
    /\ \A w \in Tasks : worker[w].pc = "done"
    /\ \A p \in Phases : permits[p] = phase[p].current_limit

----------------------------------------------------------------------------
(* SpecRerun: the natives phase of one run of the acquisition after         *)
(* another on the same game_path, by the same process or by a new one, for  *)
(* a version with one native.  The fetch of the native is download_file     *)
(* above; a path here is <<directory, file stem, extension>> with the       *)
(* directory a sequence of components.                                      *)

\* The runs made one after the other.
MaxRuns == 2

\* The processes that make them: std::process::id().
NumProcesses == 2

Pids == 1..NumProcesses

\* game_path.join("temp").join("natives").join(format!("native_temp_{}", pid))
temp_dir(pid) == <<"temp", "natives", "native_temp", pid>>

\* temp_dir.join(&native.path), with the url and sha1 of the native.
NativeItem(pid) ==
    [ path |-> <<temp_dir(pid), "lwjgl-natives", "jar">>,
      content |-> <<1, 2>>,
      expected_hash |-> SHA1(<<1, 2>>),
      statuses |-> {200} ]

\* The file extract_native writes for the one entry of the native's archive,
\* in natives_dir = game_path/natives/<id>.
NativeLibrary == <<(<<"natives", "1.21.8">>), "liblwjgl", "so">>

RerunPaths ==
    {NativeLibrary}
        \cup {NativeItem(pid).path : pid \in Pids}
        \cup {with_extension(NativeItem(pid).path, "tmp") : pid \in Pids}

NewRun(number, pid, dirs) ==
    [ number |-> number,
      pid |-> pid,
      pc |-> "create_dir",   \* create_dir | download | drain | returned
      output |-> Pending,    \* what the task of the native returned
      result |-> Pending,    \* what download_natives_internal returned
      dirs |-> dirs ]        \* the temp directories that exist

RerunFrame ==
    UNCHANGED <<adaptive_config, xt, main, phase, worker, permits, first_failed,
                progress, faults, timing>>

\* tokio::fs::create_dir_all(&temp_dir).await? fails.
RunCreateTempDirFail ==
    /\ run.pc = "create_dir"
    /\ run' = [run EXCEPT !.pc = "returned", !.result = Err("IoError", <<"natives", 0>>)]
    /\ UNCHANGED <<fs, inodes, calls>>
    /\ RerunFrame

\* create_dir_all(&temp_dir), then the task of the native is spawned and
\* calls download_file(native.url, temp_native_path, native.sha1).
RunCreateTempDir ==
    /\ run.pc = "create_dir"
    /\ run' = [run EXCEPT !.pc = "download", !.dirs = run.dirs \cup {temp_dir(run.pid)}]
    /\ calls' = <<NewCall(NativeItem(run.pid))>>
    /\ UNCHANGED <<fs, inodes>>
    /\ RerunFrame

\* The steps of the task's download_file call.
RunDownload ==
    /\ run.pc = "download"
    /\ \E w \in DOMAIN calls : download_file(w)

\* download_file has returned; $post_process?: extract_native(temp_native_path,
\* natives_dir) runs whatever it returned.  ZipFileReader::new fails when no
\* file is at temp_native_path, and the extraction may fail for other
\* reasons; an Err is what the task returns.
RunExtractFail ==
    /\ run.pc = "download"
    /\ calls[1].pc = "done"
    /\ run' = [run EXCEPT !.pc = "drain", !.output = Err("ZipError", <<"natives", 1>>)]
    /\ UNCHANGED <<fs, inodes, calls>>
    /\ RerunFrame

\* extract_native writes the entry of the archive into natives_dir
\* (File::create, write_all); the task returns what download_file returned.
RunExtractOk ==
    /\ run.pc = "download"
    /\ calls[1].pc = "done"
    /\ fs[NativeItem(run.pid).path] # NoFile
    /\ LET n == FileCreateInode(fs, inodes, NativeLibrary)
           contenido == FileAt(NativeItem(run.pid).path)
       IN  /\ fs' = [fs EXCEPT ![NativeLibrary] = n]
           /\ inodes' = [k \in (DOMAIN inodes) \cup {n} |->
                            IF k = n THEN [bytes |-> contenido, by |-> {}] ELSE inodes[k]]
    /\ run' = [run EXCEPT !.pc = "drain",
                          !.output = IF calls[1].result = "Ok" THEN Ok
                                     ELSE Err(calls[1].result, <<"natives", 1>>)]
    /\ UNCHANGED calls
    /\ RerunFrame

\* while let Some(res) = tasks.next().await { res??; }: the Err of the task
\* returns from the phase, before remove_dir_all.
RunDrainErr ==
    /\ run.pc = "drain"
    /\ IsErr(run.output)
    /\ run' = [run EXCEPT !.pc = "returned", !.result = run.output]
    /\ UNCHANGED <<fs, inodes, calls>>
    /\ RerunFrame

\* tokio::fs::remove_dir_all(temp_dir).await? fails.
RunRemoveDirFail ==
    /\ run.pc = "drain"
    /\ ~IsErr(run.output)
    /\ run' = [run EXCEPT !.pc = "returned", !.result = Err("IoError", <<"natives", 0>>)]
    /\ UNCHANGED <<fs, inodes, calls>>
    /\ RerunFrame

\* remove_dir_all(temp_dir) removes the directory of this run with all that
\* is in it; Ok(()).
RunRemoveDir ==
    /\ run.pc = "drain"
    /\ ~IsErr(run.output)
    /\ fs' = [path \in DOMAIN fs |-> IF path[1] = temp_dir(run.pid) THEN NoFile ELSE fs[path]]
    /\ inodes' = Collect(inodes, fs', calls)
    /\ run' = [run EXCEPT !.pc = "returned", !.result = Ok,
                          !.dirs = run.dirs \ {temp_dir(run.pid)}]
    /\ UNCHANGED calls
    /\ RerunFrame

\* The acquisition is run again, by the same process or by another.
RunAgain ==
    /\ run.pc = "returned"
    /\ run.number < MaxRuns
    /\ \E pid \in Pids : run' = NewRun(run.number + 1, pid, run.dirs)
    /\ calls' = <<>>
    /\ UNCHANGED <<fs, inodes>>
    /\ RerunFrame

InitRerun ==
    /\ run = NewRun(1, 1, {})
    /\ fs = [path \in RerunPaths |-> NoFile]
    /\ inodes = <<>>
    /\ calls = <<>>
    /\ IdleController
    /\ IdleExtract
    /\ IdleOrchestrator
    /\ IdleTiming

NextRerun ==
    \/ RunCreateTempDirFail
    \/ RunCreateTempDir
    \/ RunDownload
    \/ RunExtractFail
    \/ RunExtractOk
    \/ RunDrainErr
    \/ RunRemoveDirFail
    \/ RunRemoveDir
    \/ RunAgain

SpecRerun == InitRerun /\ [][NextRerun]_vars

\* C11: after the natives phase returns, Ok or Err, the temporary directory
\* of the run no longer exists.
C11_TempDirRemoved ==
    run.pc = "returned" => temp_dir(run.pid) \notin run.dirs

\* C19: a run after the first that returns Ok leaves the tree one successful
\* run from a clean directory leaves, whatever the first run left behind:
\* the extracted native with its content and nothing else.
C19_Idempotent ==
    (run.number > 1 /\ run.pc = "returned" /\ run.result = Ok)
        => /\ run.dirs = {}
           /\ \A path \in DOMAIN fs : fs[path] # NoFile => path = NativeLibrary
           /\ FileAt(NativeLibrary) = NativeItem(run.pid).content

----------------------------------------------------------------------------
(* SpecTiming: the tasks create_monitored_task! spawns for one phase whose  *)
(* items need no post-processing, with no sink, under a clock of whole      *)
(* seconds: Instant::now() reads the clock, and between two steps of the    *)
(* tasks any time may pass.  The phase has taken its snapshot of            *)
(* current_concurrent, built its Semaphore and spawned its tasks.           *)

\* The seconds the clock runs for.
MaxTime == 4

NumTimedTasks == 3

TimedTasks == 1..NumTimedTasks

\* Duration::as_millis of a Duration of whole seconds.
MsPerSec == 1000

NewTimedTask ==
    [ pc |-> "spawned",       \* spawned | acquire | download | done
      start_time |-> 0,       \* let start_time = Instant::now()
      called_at |-> 0,        \* the instant download_file is called
      fetch_ms |-> 0,         \* the time the download_file call took
      download_duration |-> 0 ]  \* let download_duration = start_time.elapsed()

NewTiming(current_limit) ==
    [ now |-> 0,
      permits |-> SemaphoreNew(current_limit),
      task |-> [w \in TimedTasks |-> NewTimedTask] ]

TimingFrame ==
    UNCHANGED <<fs, inodes, calls, xt, main, phase, worker, permits, first_failed,
                progress, faults, run>>

\* The task is polled for the first time: let start_time = Instant::now(),
\* then semaphore.acquire_owned().await, which with a permit left returns
\* it at once, and the task calls download_file; with none left the task
\* waits.
TaskStart(w) ==
    /\ timing.task[w].pc = "spawned"
    /\ timing' =
           IF Available(timing.permits)
           THEN [timing EXCEPT !.permits = timing.permits - 1,
                               !.task[w].pc = "download",
                               !.task[w].start_time = timing.now,
                               !.task[w].called_at = timing.now]
           ELSE [timing EXCEPT !.task[w].pc = "acquire",
                               !.task[w].start_time = timing.now]
    /\ UNCHANGED adaptive_config
    /\ TimingFrame

\* A permit is back: the acquire_owned().await of a waiting task returns it,
\* and the task calls download_file.
TaskAcquire(w) ==
    /\ timing.task[w].pc = "acquire"
    /\ Available(timing.permits)
    /\ timing' = [timing EXCEPT !.permits = timing.permits - 1,
                                !.task[w].pc = "download",
                                !.task[w].called_at = timing.now]
    /\ UNCHANGED adaptive_config
    /\ TimingFrame

\* start_time.elapsed(), in ms.
StartTimeElapsed(w) == MsPerSec * (timing.now - timing.task[w].start_time)

\* download_file returns: let download_duration = start_time.elapsed(),
\* record_and_adjust(download_duration) under the lock, then fetch_add,
\* drop(permit), result.
TaskDownloaded(w) ==
    /\ timing.task[w].pc = "download"
    /\ adaptive_config' = record_and_adjust(adaptive_config, StartTimeElapsed(w))
    /\ timing' = [timing EXCEPT
                      !.permits = ReleasePermit(timing.permits),
                      !.task[w].pc = "done",
                      !.task[w].fetch_ms = MsPerSec * (timing.now - timing.task[w].called_at),
                      !.task[w].download_duration = StartTimeElapsed(w)]
    /\ TimingFrame

\* A second passes.
TimePasses ==
    /\ timing.now < MaxTime
    /\ timing' = [timing EXCEPT !.now = timing.now + 1]
    /\ adaptive_config' = Elapse(adaptive_config, 1)
    /\ TimingFrame

InitTiming ==
    /\ \E k \in 0..MaxPriorAdjustments :
           /\ adaptive_config = Lowered(Preset("conservative", SpecCpuCores, SpecMemKb), k)
           /\ timing = NewTiming(adaptive_config.current_concurrent)
    /\ IdleFetch
    /\ IdleExtract
    /\ IdleOrchestrator
    /\ IdleRerun

NextTiming ==
    \/ \E w \in TimedTasks : TaskStart(w)
    \/ \E w \in TimedTasks : TaskAcquire(w)
    \/ \E w \in TimedTasks : TaskDownloaded(w)
    \/ TimePasses

SpecTiming == InitTiming /\ [][NextTiming]_vars

\* C23: the duration a task feeds to record_and_adjust is the time of its
\* download_file call only: the time the task waited for a permit is no part
\* of it.
C23_DurationIsFetchTime ==
    \A w \in TimedTasks :
        timing.task[w].pc = "done"
            => timing.task[w].download_duration = timing.task[w].fetch_ms

============================================================================
